---- MODULE Spec2Model ----
(***************************************************************************)
(* create-lithia-app: the flag validation, config resolution and project   *)
(* creation pipeline of src/src/cli/index.ts (the citty command whose run  *)
(* handler starts at line 313) and validateProjectName of                  *)
(* src/src/utils/index.ts.                                                 *)
(*                                                                         *)
(* One run of the command is one behaviour.  The command line, the state   *)
(* of the target directory, the outcome of the version probes, the answers *)
(* typed at the prompts, the content of the cloned template and the        *)
(* outcome of the external commands are the environment's choices.         *)
(*                                                                         *)
(* Conventions: a string option that was not passed is `undefined`; a      *)
(* boolean flag is TRUE when passed and FALSE (JavaScript undefined) when  *)
(* not, so `options.install === undefined` is ~args.install.  A project    *)
(* name is a sequence of one-character strings.                            *)
(***************************************************************************)
EXTENDS Integers, Sequences, FiniteSets, TLC

VARIABLES
    args,          \* CLIOptions as parsed from the command line
    pc,            \* position of the run handler
    exitCode,      \* -1 while the process runs, else the process exit code
    errorMessage,  \* message handed to error() by the catch of run
    checks,        \* result of checkSystemDependencies
    baseConfig,    \* result of getBaseConfig
    responses,     \* answers collected by the prompts session so far
    config,        \* ProjectConfig handed to createProject
    shown,         \* prompts shown so far, in order
    fs,            \* the target directory
    steps,         \* filesystem steps and external commands issued, in order
    printed,       \* next-step commands printed by displaySuccessMessage
    vpnArg,        \* argument of the last validateProjectName call
    vpnResult,     \* value returned by the last validateProjectName call
    cancelled,     \* the prompt the user aborted, "" if none
    overwriteAnswer, \* `overwrite` of handleExistingDirectory: "unasked",
                   \* "true", "false", or "undefined" after an abort
    probes         \* the pingVersion calls of checkSystemDependencies

vars == <<args, pc, exitCode, errorMessage, checks, baseConfig, responses,
          config, shown, fs, steps, printed, vpnArg, vpnResult, cancelled,
          overwriteAnswer, probes>>

----------------------------------------------------------------------------
(* Bounds and input domains *)

MaxLen == 3

undefined == "undefined"
undefinedName == <<undefined>>

LowerLetters ==
    {"a","b","c","d","e","f","g","h","i","j","k","l","m",
     "n","o","p","q","r","s","t","u","v","w","x","y","z"}
Digits == {"0","1","2","3","4","5","6","7","8","9"}
Allowed == LowerLetters \cup Digits \cup {"-"}

Alphabet == {"a", "z", "0", "9", "-", "A", "_", " "}

RECURSIVE StringsOfLen(_)
StringsOfLen(n) ==
    IF n = 0 THEN {<<>>}
    ELSE {Append(s, c) : s \in StringsOfLen(n - 1), c \in Alphabet}

Strings == UNION {StringsOfLen(n) : n \in 0..MaxLen}

DemoApp == <<"d", "-", "1">>
NameFlags == {undefinedName, <<>>, DemoApp, <<"M", "y">>}
TypedNames == {DemoApp, <<"A", "_">>, <<>>}

TemplateFlags == {undefined, "", "with-prisma", "bogus"}
PackageManagerFlags == {undefined, "", "pnpm", "pip"}

\* the hosts a run is tried on: the tools whose `--version` succeeds
Hosts ==
    { {}, {"git"}, {"git", "npm"}, {"npm", "yarn", "pnpm", "bun"},
      {"git", "npm", "yarn", "pnpm", "bun"} }

\* the package.json of a template names the template
TemplatePkgName == <<"t">>

\* the trees a template repository may hold
TemplateTrees ==
    { [pkg |-> "valid", pkgDescription |-> TRUE, lock |-> TRUE],
      [pkg |-> "valid", pkgDescription |-> FALSE, lock |-> FALSE],
      [pkg |-> "invalid", pkgDescription |-> FALSE, lock |-> TRUE],
      [pkg |-> "missing", pkgDescription |-> FALSE, lock |-> TRUE] }

----------------------------------------------------------------------------
(* src/src/utils/index.ts *)

RECURSIVE MatchPlusToEnd(_, _)
MatchPlusToEnd(value, i) ==
    /\ i <= Len(value)
    /\ value[i] \in Allowed
    /\ (i = Len(value) \/ MatchPlusToEnd(value, i + 1))

\* the pattern without its end anchor: /^[a-z0-9-]+/
RegexTestUnanchored(value) == Len(value) >= 1 /\ value[1] \in Allowed

\* /^[a-z0-9-]+$/.test(value)
RegexTest(value) == MatchPlusToEnd(value, 1)

EmptyMessage == "Project name cannot be empty"
FormatMessage ==
    "Project name can only contain lowercase letters, numbers, and hyphens"

validateProjectName(value) ==
    IF value = undefinedName \/ value = <<>> THEN EmptyMessage
    ELSE IF RegexTest(value) THEN "true"
    ELSE FormatMessage

----------------------------------------------------------------------------
(* src/src/cli/index.ts: constants *)

TEMPLATES ==
    << [name |-> "default", branch |-> "main",
        url |-> "https://github.com/lithiajs/lithia-default-app-template.git"],
       [name |-> "with-drizzle", branch |-> "main",
        url |-> "https://github.com/lithiajs/lithia-with-drizzle-template.git"],
       [name |-> "with-prisma", branch |-> "main",
        url |-> "https://github.com/lithiajs/lithia-with-prisma-template.git"] >>

TemplateNames == {TEMPLATES[i].name : i \in 1..Len(TEMPLATES)}

FindTemplate(name) ==
    CHOOSE t \in {TEMPLATES[i] : i \in 1..Len(TEMPLATES)} : t.name = name

PackageManagers == {"npm", "yarn", "pnpm", "bun"}
Tools == PackageManagers \cup {"git"}

isValidPackageManager(manager) == manager \in PackageManagers

Truthy(s) == s # undefined /\ s # ""
TruthyName(n) == n # undefinedName /\ n # <<>>

----------------------------------------------------------------------------
(* Initial state: the command line and the target directory *)

NoResponses == <<>>

NullConfig ==
    [projectName |-> undefinedName, template |-> TEMPLATES[1],
     installDependencies |-> FALSE, initializeGit |-> FALSE,
     packageManager |-> undefined]

CLIOptions ==
    [name : NameFlags, template : TemplateFlags,
     packageManager : PackageManagerFlags, yes : BOOLEAN,
     install : BOOLEAN, noInstall : BOOLEAN, overwrite : BOOLEAN,
     git : BOOLEAN, noGit : BOOLEAN]

AbsentDir ==
    [dir |-> "absent", git |-> "none", pkg |-> "missing",
     pkgName |-> <<>>, pkgVersion |-> "", pkgDescription |-> FALSE,
     lock |-> FALSE, modules |-> FALSE]

ExistingDir == [AbsentDir EXCEPT !.dir = "existing"]

\* Promise.all([pingVersion('npm'), pingVersion('yarn'), pingVersion('pnpm'),
\*              pingVersion('bun'), pingVersion('git')])
ProbeCalls == <<"npm", "yarn", "pnpm", "bun", "git">>

\* no pingVersion call made yet: `next` is the index of the next call,
\* child[i] the `<cmd> --version` process of call i, promise[i] the promise
\* call i returned, order the calls in the order their promises resolved
NoProbes ==
    [next |-> 1,
     child |-> [i \in 1..Len(ProbeCalls) |-> "none"],
     promise |-> [i \in 1..Len(ProbeCalls) |-> "none"],
     order |-> <<>>]

Init ==
    /\ args \in CLIOptions
    /\ pc = "validateAndParseArgs"
    /\ exitCode = -1
    /\ errorMessage = ""
    /\ checks = [t \in Tools |-> FALSE]
    /\ baseConfig = NullConfig
    /\ responses = NoResponses
    /\ config = NullConfig
    /\ shown = <<>>
    /\ fs \in {AbsentDir, ExistingDir}
    /\ steps = <<>>
    /\ printed = <<>>
    /\ vpnArg = undefinedName
    /\ vpnResult = ""
    /\ cancelled = ""
    /\ overwriteAnswer = "unasked"
    /\ probes = NoProbes

----------------------------------------------------------------------------
(* main.run: the catch block and process.exit *)

\* catch (err) { error(err.message); process.exit(1); }
Throw(message) ==
    /\ pc' = "exited"
    /\ exitCode' = 1
    /\ errorMessage' = message

\* process.exit(0)
Exit0 ==
    /\ pc' = "exited"
    /\ exitCode' = 0
    /\ UNCHANGED errorMessage

\* the handler goes on to its next await
Goto(label) ==
    /\ pc' = label
    /\ UNCHANGED <<exitCode, errorMessage>>

----------------------------------------------------------------------------
(* Config resolution *)

\* validateAndParseArgs without the two conflict checks
ValidationErrorNoConflicts(a) ==
    IF a.yes /\ ~TruthyName(a.name)
        THEN "Project name is required when using --yes flag"
    ELSE IF Truthy(a.template) /\ a.template \notin TemplateNames
        THEN "Invalid template"
    ELSE IF Truthy(a.packageManager) /\ ~isValidPackageManager(a.packageManager)
        THEN "Invalid package manager"
    ELSE ""

ValidationError(a) ==
    IF a.yes /\ ~TruthyName(a.name)
        THEN "Project name is required when using --yes flag"
    ELSE IF Truthy(a.template) /\ a.template \notin TemplateNames
        THEN "Invalid template"
    ELSE IF Truthy(a.packageManager) /\ ~isValidPackageManager(a.packageManager)
        THEN "Invalid package manager"
    ELSE IF a.install /\ a.noInstall
        THEN "Cannot use both --install and --no-install"
    ELSE IF a.git /\ a.noGit
        THEN "Cannot use both --git and --no-git"
    ELSE ""

validateAndParseArgs ==
    /\ pc = "validateAndParseArgs"
    /\ IF ValidationError(args) # ""
          THEN Throw(ValidationError(args))
          ELSE Goto("checkSystemDependencies")
    /\ UNCHANGED <<probes, args, checks, baseConfig, responses, config, shown, fs,
                   steps, printed, vpnArg, vpnResult, cancelled,
                   overwriteAnswer>>

\* checkSystemDependencies taken in one step: the probes have settled the
\* way the host decides (SpecProbe takes it probe by probe)
checkSystemDependencies ==
    /\ pc = "checkSystemDependencies"
    /\ \E host \in Hosts : checks' = [t \in Tools |-> t \in host]
    /\ Goto("getBaseConfig")
    /\ UNCHANGED <<probes, args, baseConfig, responses, config, shown, fs, steps,
                   printed, vpnArg, vpnResult, cancelled,
                   overwriteAnswer>>

getInstallFlag(options) ==
    IF options.install THEN TRUE
    ELSE IF options.noInstall THEN FALSE
    ELSE TRUE

getGitFlag(options) ==
    IF options.git THEN TRUE
    ELSE IF options.noGit THEN FALSE
    ELSE TRUE

TemplateOrFirst(name) ==
    IF name \in TemplateNames THEN FindTemplate(name) ELSE TEMPLATES[1]

\* the part of getBaseConfig after projectName is known
BaseConfigFor(projectName) ==
    /\ vpnArg' = projectName
    /\ vpnResult' = validateProjectName(projectName)
    /\ baseConfig' =
         [projectName |-> projectName,
          template |-> TemplateOrFirst(args.template),
          installDependencies |-> getInstallFlag(args),
          initializeGit |-> getGitFlag(args),
          packageManager |-> args.packageManager]
    /\ Goto("getProjectConfig")

\* options.name is truthy: no name prompt
getBaseConfig ==
    /\ pc = "getBaseConfig"
    /\ TruthyName(args.name)
    /\ BaseConfigFor(args.name)
    /\ UNCHANGED <<probes, args, checks, responses, config, shown, fs, steps, printed,
                   cancelled,
                   overwriteAnswer>>

\* options.name is falsy: the text prompt of getProjectName is shown
getProjectName ==
    /\ pc = "getBaseConfig"
    /\ ~TruthyName(args.name)
    /\ shown' = Append(shown, "name")
    /\ Goto("prompt:name")
    /\ UNCHANGED <<probes, args, checks, baseConfig, responses, config, fs, steps,
                   printed, vpnArg, vpnResult, cancelled,
                   overwriteAnswer>>

\* format: (v) => v.trim()
RECURSIVE Trim(_)
Trim(v) ==
    IF v = <<>> THEN v
    ELSE IF Head(v) = " " THEN Trim(Tail(v))
    ELSE IF v[Len(v)] = " " THEN Trim(SubSeq(v, 1, Len(v) - 1))
    ELSE v

\* the prompt submits only a value its validate callback accepts
submitProjectName ==
    /\ pc = "prompt:name"
    /\ \E typed \in TypedNames :
          /\ validateProjectName(typed) = "true"
          /\ BaseConfigFor(Trim(typed))
    /\ UNCHANGED <<probes, args, checks, responses, config, shown, fs, steps, printed,
                   cancelled,
                   overwriteAnswer>>

\* the prompt is aborted: no onCancel is installed, prompts() resolves to {}
\* and name is undefined
cancelProjectName ==
    /\ pc = "prompt:name"
    /\ BaseConfigFor(undefinedName)
    /\ cancelled' = "name"
    /\ UNCHANGED <<probes, args, checks, responses, config, shown, fs, steps, printed,
                   overwriteAnswer>>

\* getAutoConfig returning the base config as it is, without the defaults
getAutoConfigNoDefaults ==
    /\ pc = "getProjectConfig"
    /\ args.yes
    /\ IF Truthy(args.packageManager) /\ ~checks[args.packageManager]
          THEN /\ Throw("Package manager not available")
               /\ UNCHANGED config
          ELSE /\ config' = baseConfig @@ [overwrite |-> args.overwrite]
               /\ Goto("createProject")
    /\ UNCHANGED <<probes, args, checks, baseConfig, responses, shown, fs, steps,
                   printed, vpnArg, vpnResult, cancelled,
                   overwriteAnswer>>

getAutoConfig ==
    /\ pc = "getProjectConfig"
    /\ args.yes
    /\ IF Truthy(args.packageManager) /\ ~checks[args.packageManager]
          THEN /\ Throw("Package manager not available")
               /\ UNCHANGED config
          ELSE /\ config' =
                    [baseConfig EXCEPT
                       !.packageManager =
                          IF Truthy(args.packageManager)
                             THEN args.packageManager ELSE "npm",
                       !.installDependencies = ~args.noInstall,
                       !.initializeGit =
                          IF args.git THEN TRUE ELSE ~args.noGit]
                    @@ [overwrite |-> args.overwrite]
               /\ Goto("createProject")
    /\ UNCHANGED <<probes, args, checks, baseConfig, responses, shown, fs, steps,
                   printed, vpnArg, vpnResult, cancelled,
                   overwriteAnswer>>

\* the answer handed as `prev` to a type callback: the last answer given
PrevTruthy(r) ==
    IF "installDependencies" \in DOMAIN r THEN r.installDependencies
    ELSE "template" \in DOMAIN r

\* the package-manager question keyed on the previous answer alone:
\* (prev) => (prev && !options['package-manager'] ? 'select' : null)
QuestionAskedOnPrevOnly(q) ==
    CASE q = "template" -> ~Truthy(args.template)
      [] q = "installDependencies" -> ~args.install
      [] q = "packageManager" ->
            PrevTruthy(responses) /\ ~Truthy(args.packageManager)
      [] q = "initializeGit" -> checks["git"] /\ ~args.git

\* the `type` of each question of the prompts session: TRUE when it is asked
QuestionAsked(q) ==
    CASE q = "template" -> ~Truthy(args.template)
      [] q = "installDependencies" -> ~args.install
      [] q = "packageManager" ->
            (PrevTruthy(responses) \/ args.install)
               /\ ~Truthy(args.packageManager)
      [] q = "initializeGit" -> checks["git"] /\ ~args.git

Questions ==
    <<"template", "installDependencies", "packageManager", "initializeGit">>

\* getAvailablePackageManagers: the choices that are not disabled
getAvailablePackageManagers(c) == {m \in PackageManagers : c[m]}

\* the values a question can be answered with
Answers(q) ==
    CASE q = "template" -> {TEMPLATES[i] : i \in 1..Len(TEMPLATES)}
      [] q = "installDependencies" -> BOOLEAN
      [] q = "packageManager" -> getAvailablePackageManagers(checks)
      [] q = "initializeGit" -> BOOLEAN

\* { ...baseConfig, ...responses,
\*   initializeGit: responses.initializeGit ?? baseConfig.initializeGit }
InteractiveResult(r) ==
    [initializeGit |->
        IF "initializeGit" \in DOMAIN r THEN r.initializeGit
        ELSE baseConfig.initializeGit]
    @@ r @@ baseConfig

\* getInteractiveConfig is entered: the prompts session starts
getInteractiveConfig ==
    /\ pc = "getProjectConfig"
    /\ ~args.yes
    /\ Goto("question:1")
    /\ UNCHANGED <<probes, args, checks, baseConfig, responses, config, shown, fs,
                   steps, printed, vpnArg, vpnResult, cancelled,
                   overwriteAnswer>>

\* after question i: the next question, or the return of getInteractiveConfig
AfterQuestion(i, r) ==
    IF i < Len(Questions)
       THEN /\ Goto("question:" \o ToString(i + 1))
            /\ UNCHANGED config
       ELSE /\ Goto("createProject")
            /\ config' = InteractiveResult(r)

\* question i has type null: prompts skips it
skipQuestion(i) ==
    /\ pc = "question:" \o ToString(i)
    /\ ~QuestionAsked(Questions[i])
    /\ AfterQuestion(i, responses)
    /\ UNCHANGED <<probes, args, checks, baseConfig, responses, shown, fs, steps,
                   printed, vpnArg, vpnResult, cancelled,
                   overwriteAnswer>>

\* question i is shown and answered
answerQuestion(i) ==
    /\ pc = "question:" \o ToString(i)
    /\ QuestionAsked(Questions[i])
    /\ \E answer \in Answers(Questions[i]) :
          /\ responses' = (Questions[i] :> answer) @@ responses
          /\ AfterQuestion(i, responses')
    /\ shown' = Append(shown, Questions[i])
    /\ UNCHANGED <<probes, args, checks, baseConfig, fs, steps, printed, vpnArg,
                   vpnResult, cancelled,
                   overwriteAnswer>>

\* question i is shown and aborted: onCancel: () => process.exit(0)
onCancel(i) ==
    /\ pc = "question:" \o ToString(i)
    /\ QuestionAsked(Questions[i])
    /\ shown' = Append(shown, Questions[i])
    /\ cancelled' = Questions[i]
    /\ Exit0
    /\ UNCHANGED <<probes, args, checks, baseConfig, responses, config, fs, steps,
                   printed, vpnArg, vpnResult, overwriteAnswer>>

----------------------------------------------------------------------------
(* Project creation *)

Overwrite(c) == "overwrite" \in DOMAIN c /\ c.overwrite

Do(step) == steps' = Append(steps, step)

\* createProject up to the first await that can end it: path.resolve throws a
\* TypeError on an undefined name; handleExistingDirectory stats the directory
\* and shows the overwrite prompt when it exists and config.overwrite is falsy
createProject ==
    /\ pc = "createProject"
    /\ IF config.projectName = undefinedName
          THEN /\ Throw("The \"paths[1]\" argument must be of type string")
               /\ UNCHANGED shown
          ELSE IF fs.dir = "existing"
             THEN IF ~Overwrite(config)
                     THEN /\ shown' = Append(shown, "overwrite")
                          /\ Goto("prompt:overwrite")
                     ELSE /\ Goto("rm:dir")
                          /\ UNCHANGED shown
             ELSE /\ Goto("mkdir")
                  /\ UNCHANGED shown
    /\ UNCHANGED <<probes, args, checks, baseConfig, responses, config, fs, steps,
                   printed, vpnArg, vpnResult, cancelled,
                   overwriteAnswer>>

\* handleExistingDirectory without the exit on a declined prompt
answerOverwriteIgnored ==
    /\ pc = "prompt:overwrite"
    /\ \E overwrite \in BOOLEAN :
          /\ overwriteAnswer' = IF overwrite THEN "true" ELSE "false"
          /\ Goto("rm:dir")
    /\ UNCHANGED <<probes, args, checks, baseConfig, responses, config, shown, fs,
                   steps, printed, vpnArg, vpnResult, cancelled>>

\* the overwrite prompt is answered: if (!overwrite) process.exit(0)
answerOverwrite ==
    /\ pc = "prompt:overwrite"
    /\ \E overwrite \in BOOLEAN :
          /\ overwriteAnswer' = IF overwrite THEN "true" ELSE "false"
          /\ IF ~overwrite THEN Exit0 ELSE Goto("rm:dir")
    /\ UNCHANGED <<probes, args, checks, baseConfig, responses, config, shown, fs,
                   steps, printed, vpnArg, vpnResult, cancelled>>

\* the overwrite prompt is aborted: prompts() resolves to {}, overwrite is
\* undefined
cancelOverwrite ==
    /\ pc = "prompt:overwrite"
    /\ cancelled' = "overwrite"
    /\ overwriteAnswer' = "undefined"
    /\ Exit0
    /\ UNCHANGED <<probes, args, checks, baseConfig, responses, config, shown, fs,
                   steps, printed, vpnArg, vpnResult>>

\* the tail of createProject: the two optional steps
AfterCleanup ==
    IF config.initializeGit THEN "initializeGitRepository"
    ELSE IF config.installDependencies /\ Truthy(config.packageManager)
       THEN "installDependencies"
    ELSE "displaySuccessMessage"

\* createProject with the manifest rewritten after the two removals
StepAfterRemovalsFirst(step) ==
    CASE step = "cloneTemplate" -> "rm:.git"
      [] step = "rm:.git" -> "rm:package-lock.json"
      [] step = "rm:package-lock.json" -> "updatePackageJson"
      [] step = "updatePackageJson" -> AfterCleanup
      [] step = "initializeGitRepository" ->
            IF config.installDependencies /\ Truthy(config.packageManager)
               THEN "installDependencies" ELSE "displaySuccessMessage"
      [] step = "installDependencies" -> "displaySuccessMessage"

\* the statement of createProject that follows a completed step
StepAfter(step) ==
    CASE step = "cloneTemplate" -> "updatePackageJson"
      [] step = "updatePackageJson" -> "rm:.git"
      [] step = "rm:.git" -> "rm:package-lock.json"
      [] step = "rm:package-lock.json" -> AfterCleanup
      [] step = "initializeGitRepository" ->
            IF config.installDependencies /\ Truthy(config.packageManager)
               THEN "installDependencies" ELSE "displaySuccessMessage"
      [] step = "installDependencies" -> "displaySuccessMessage"

\* await rm(dir, { recursive: true })
rmDir ==
    /\ pc = "rm:dir"
    /\ Do("rm:dir")
    /\ fs' = AbsentDir
    /\ Goto("mkdir")
    /\ UNCHANGED <<probes, args, checks, baseConfig, responses, config, shown,
                   printed, vpnArg, vpnResult, cancelled,
                   overwriteAnswer>>

\* await mkdir(dir, { recursive: true })
mkdir ==
    /\ pc = "mkdir"
    /\ Do("mkdir")
    /\ fs' = [fs EXCEPT !.dir = "created"]
    /\ Goto("cloneTemplate")
    /\ UNCHANGED <<probes, args, checks, baseConfig, responses, config, shown,
                   printed, vpnArg, vpnResult, cancelled,
                   overwriteAnswer>>

\* cloneTemplate issuing the clone a second time after a first failure
cloneTemplateRetryOnce ==
    /\ pc = "cloneTemplate"
    /\ Do("git clone")
    /\ \/ /\ checks["git"]
          /\ \E tree \in TemplateTrees :
                fs' = [fs EXCEPT !.git = "cloned", !.pkg = tree.pkg,
                                 !.pkgName = TemplatePkgName,
                                 !.pkgVersion = "1.0.0",
                                 !.pkgDescription = tree.pkgDescription,
                                 !.lock = tree.lock]
          /\ Goto(StepAfter("cloneTemplate"))
       \/ /\ IF steps = <<"mkdir">> \/ steps = <<"rm:dir", "mkdir">>
                THEN Goto("cloneTemplate")
                ELSE Throw("Command failed: git clone")
          /\ UNCHANGED fs
    /\ UNCHANGED <<probes, args, checks, baseConfig, responses, config, shown,
                   printed, vpnArg, vpnResult, cancelled,
                   overwriteAnswer>>

\* git clone --branch <branch> <url> .   It fails on a host without git and
\* may fail on any other.
cloneTemplate ==
    /\ pc = "cloneTemplate"
    /\ Do("git clone")
    /\ \/ /\ checks["git"]
          /\ \E tree \in TemplateTrees :
                fs' = [fs EXCEPT !.git = "cloned", !.pkg = tree.pkg,
                                 !.pkgName = TemplatePkgName,
                                 !.pkgVersion = "1.0.0",
                                 !.pkgDescription = tree.pkgDescription,
                                 !.lock = tree.lock]
          /\ Goto(StepAfter("cloneTemplate"))
       \/ /\ Throw("Command failed: git clone")
          /\ UNCHANGED fs
    /\ UNCHANGED <<probes, args, checks, baseConfig, responses, config, shown,
                   printed, vpnArg, vpnResult, cancelled,
                   overwriteAnswer>>

updatePackageJson ==
    /\ pc = "updatePackageJson"
    /\ Do("updatePackageJson")
    /\ IF fs.pkg = "missing"
          THEN /\ Throw("ENOENT: no such file or directory, open package.json")
               /\ UNCHANGED fs
          ELSE IF fs.pkg = "invalid"
             THEN /\ Throw("Unexpected token in JSON")
                  /\ UNCHANGED fs
             ELSE /\ fs' = [fs EXCEPT !.pkgName = config.projectName,
                                      !.pkgVersion = "0.1.0",
                                      !.pkgDescription = FALSE]
                  /\ Goto(StepAfter("updatePackageJson"))
    /\ UNCHANGED <<probes, args, checks, baseConfig, responses, config, shown,
                   printed, vpnArg, vpnResult, cancelled,
                   overwriteAnswer>>

\* await rm(path.join(dir, '.git'), { recursive: true })
rmGit ==
    /\ pc = "rm:.git"
    /\ Do("rm:.git")
    /\ IF fs.git = "none"
          THEN /\ Throw("ENOENT: no such file or directory, lstat .git")
               /\ UNCHANGED fs
          ELSE /\ fs' = [fs EXCEPT !.git = "none"]
               /\ Goto(StepAfter("rm:.git"))
    /\ UNCHANGED <<probes, args, checks, baseConfig, responses, config, shown,
                   printed, vpnArg, vpnResult, cancelled,
                   overwriteAnswer>>

\* await rm(path.join(dir, 'package-lock.json'), { recursive: true }): no
\* force option, so a missing file is an error
rmLock ==
    /\ pc = "rm:package-lock.json"
    /\ Do("rm:package-lock.json")
    /\ IF ~fs.lock
          THEN /\ Throw("ENOENT: no such file or directory, lstat package-lock.json")
               /\ UNCHANGED fs
          ELSE /\ fs' = [fs EXCEPT !.lock = FALSE]
               /\ Goto(StepAfter("rm:package-lock.json"))
    /\ UNCHANGED <<probes, args, checks, baseConfig, responses, config, shown,
                   printed, vpnArg, vpnResult, cancelled,
                   overwriteAnswer>>

initializeGitRepository ==
    /\ pc = "initializeGitRepository"
    /\ Do("git init")
    /\ \/ /\ checks["git"]
          /\ fs' = [fs EXCEPT !.git = "fresh"]
          /\ Goto(StepAfter("initializeGitRepository"))
       \/ /\ Throw("Command failed: git init")
          /\ UNCHANGED fs
    /\ UNCHANGED <<probes, args, checks, baseConfig, responses, config, shown,
                   printed, vpnArg, vpnResult, cancelled,
                   overwriteAnswer>>

\* `${manager} install`
InstallCommand(manager) ==
    CASE manager = "npm" -> "npm install"
      [] manager = "yarn" -> "yarn install"
      [] manager = "pnpm" -> "pnpm install"
      [] manager = "bun" -> "bun install"

installDependencies ==
    /\ pc = "installDependencies"
    /\ Do(InstallCommand(config.packageManager))
    /\ \/ /\ checks[config.packageManager]
          /\ fs' = [fs EXCEPT !.modules = TRUE]
          /\ Goto(StepAfter("installDependencies"))
       \/ /\ Throw("Command failed: install")
          /\ UNCHANGED fs
    /\ UNCHANGED <<probes, args, checks, baseConfig, responses, config, shown,
                   printed, vpnArg, vpnResult, cancelled,
                   overwriteAnswer>>

\* `${config.packageManager} run dev`
RunDevCommand(manager) ==
    CASE manager = "npm" -> "npm run dev"
      [] manager = "yarn" -> "yarn run dev"
      [] manager = "pnpm" -> "pnpm run dev"
      [] manager = "bun" -> "bun run dev"
      [] manager = "" -> " run dev"
      [] manager = undefined -> "undefined run dev"

\* displaySuccessMessage, then run returns and the process ends with code 0
displaySuccessMessage ==
    /\ pc = "displaySuccessMessage"
    /\ printed' =
          << "Project ready!", "cd",
             IF config.installDependencies
                THEN RunDevCommand(config.packageManager)
                ELSE "npm install && npm run dev" >>
    /\ Exit0
    /\ UNCHANGED <<probes, args, checks, baseConfig, responses, config, shown, fs,
                   steps, vpnArg, vpnResult, cancelled,
                   overwriteAnswer>>

----------------------------------------------------------------------------
Next ==
    \/ validateAndParseArgs
    \/ checkSystemDependencies
    \/ getBaseConfig
    \/ getProjectName
    \/ submitProjectName
    \/ cancelProjectName
    \/ getAutoConfig
    \/ getInteractiveConfig
    \/ \E i \in 1..Len(Questions) : skipQuestion(i)
    \/ \E i \in 1..Len(Questions) : answerQuestion(i)
    \/ \E i \in 1..Len(Questions) : onCancel(i)
    \/ createProject
    \/ answerOverwrite
    \/ cancelOverwrite
    \/ rmDir
    \/ mkdir
    \/ cloneTemplate
    \/ updatePackageJson
    \/ rmGit
    \/ rmLock
    \/ initializeGitRepository
    \/ installDependencies
    \/ displaySuccessMessage

Spec == Init /\ [][Next]_vars

----------------------------------------------------------------------------
(* validateProjectName on its own: every string up to MaxLen characters *)

InitValidate ==
    /\ args = [name |-> undefinedName, template |-> undefined,
               packageManager |-> undefined, yes |-> FALSE,
               install |-> FALSE, noInstall |-> FALSE, overwrite |-> FALSE,
               git |-> FALSE, noGit |-> FALSE]
    /\ pc = "validateProjectName"
    /\ exitCode = -1
    /\ errorMessage = ""
    /\ checks = [t \in Tools |-> FALSE]
    /\ baseConfig = NullConfig
    /\ responses = NoResponses
    /\ config = NullConfig
    /\ shown = <<>>
    /\ fs = AbsentDir
    /\ steps = <<>>
    /\ printed = <<>>
    /\ vpnArg \in Strings
    /\ vpnResult = ""
    /\ cancelled = ""
    /\ overwriteAnswer = "unasked"
    /\ probes = NoProbes

callValidateProjectName ==
    /\ pc = "validateProjectName"
    /\ vpnResult' = validateProjectName(vpnArg)
    /\ pc' = "returned"
    /\ UNCHANGED <<probes, args, exitCode, errorMessage, checks, baseConfig,
                   responses, config, shown, fs, steps, printed, vpnArg,
                   cancelled, overwriteAnswer>>

NextValidate == callValidateProjectName

SpecValidate == InitValidate /\ [][NextValidate]_vars

----------------------------------------------------------------------------
(* checkSystemDependencies probe by probe (src/src/utils/index.ts,         *)
(* pingVersion).  The array literal handed to Promise.all is evaluated      *)
(* synchronously, call after call; a child process may exit at any time    *)
(* after it was spawned; the callback of exec runs only once the function   *)
(* has suspended at its await.                                              *)

InitProbe ==
    /\ args = [name |-> DemoApp, template |-> undefined,
               packageManager |-> undefined, yes |-> TRUE,
               install |-> FALSE, noInstall |-> FALSE, overwrite |-> FALSE,
               git |-> FALSE, noGit |-> FALSE]
    /\ pc = "checkSystemDependencies"
    /\ exitCode = -1
    /\ errorMessage = ""
    /\ checks = [t \in Tools |-> FALSE]
    /\ baseConfig = NullConfig
    /\ responses = NoResponses
    /\ config = NullConfig
    /\ shown = <<>>
    /\ fs = AbsentDir
    /\ steps = <<>>
    /\ printed = <<>>
    /\ vpnArg = undefinedName
    /\ vpnResult = ""
    /\ cancelled = ""
    /\ overwriteAnswer = "unasked"
    /\ probes = NoProbes

ProbeFrame ==
    UNCHANGED <<args, exitCode, errorMessage, baseConfig, responses, config,
                shown, fs, steps, printed, vpnArg, vpnResult, cancelled,
                overwriteAnswer>>

\* the names the settled values are bound to, by position
ResultNamesSwapped == <<"npm", "yarn", "pnpm", "git", "bun">>

\* const [npm, yarn, pnpm, bun, git] = await Promise.all([...])
ResultNames == <<"npm", "yarn", "pnpm", "bun", "git">>

\* pingVersion(cmd) is called: exec spawns `<cmd> --version` and the pending
\* promise takes its place in the array
pingVersion ==
    /\ pc = "checkSystemDependencies"
    /\ probes.next <= Len(ProbeCalls)
    /\ probes' = [probes EXCEPT !.next = @ + 1,
                                !.child[probes.next] = "running",
                                !.promise[probes.next] = "pending"]
    /\ UNCHANGED <<pc, checks>>
    /\ ProbeFrame

\* the child process of call i ends: it ran and exited with 0, or it could
\* not be launched or exited with an error
childExit(i) ==
    /\ probes.child[i] = "running"
    /\ \E outcome \in {"ok", "error"} :
          probes' = [probes EXCEPT !.child[i] = outcome]
    /\ UNCHANGED <<pc, checks>>
    /\ ProbeFrame

\* the exec callback of call i: resolve(!error)
execCallback(i) ==
    /\ pc = "checkSystemDependencies"
    /\ probes.next > Len(ProbeCalls)
    /\ probes.child[i] \in {"ok", "error"}
    /\ probes.promise[i] = "pending"
    /\ probes' = [probes EXCEPT
                    !.promise[i] = IF probes.child[i] = "ok" THEN "true"
                                                             ELSE "false",
                    !.order = Append(@, ProbeCalls[i])]
    /\ UNCHANGED <<pc, checks>>
    /\ ProbeFrame

\* position of a name among the destructured names
IndexOf(names, t) == CHOOSE i \in 1..Len(names) : names[i] = t

\* Promise.all resolves once every promise has; return { npm, yarn, pnpm,
\* bun, git }
returnChecks ==
    /\ pc = "checkSystemDependencies"
    /\ probes.next > Len(ProbeCalls)
    /\ \A i \in 1..Len(ProbeCalls) : probes.promise[i] \in {"true", "false"}
    /\ checks' = [t \in Tools |->
                    probes.promise[IndexOf(ResultNames, t)] = "true"]
    /\ pc' = "getBaseConfig"
    /\ UNCHANGED probes
    /\ ProbeFrame

NextProbe ==
    \/ pingVersion
    \/ \E i \in 1..Len(ProbeCalls) : childExit(i)
    \/ \E i \in 1..Len(ProbeCalls) : execCallback(i)
    \/ returnChecks

\* every `--version` child ends and the event loop delivers every callback
SpecProbe == InitProbe /\ [][NextProbe]_vars /\ WF_vars(NextProbe)

----------------------------------------------------------------------------
(* Properties *)

Range(seq) == {seq[i] : i \in 1..Len(seq)}

\* position of the first occurrence of step in steps, 0 if there is none
Position(step) ==
    IF step \in Range(steps)
       THEN CHOOSE i \in 1..Len(steps) :
               steps[i] = step /\ \A j \in 1..(i - 1) : steps[j] # step
       ELSE 0

NameChars == {"a", "z", "0", "9", "-", "d", "1", "t"}

\* the naming rule, stated on the characters: non-empty, only lowercase
\* letters, digits and hyphens
WellNamed(n) ==
    /\ n # undefinedName
    /\ n # <<>>
    /\ \A i \in 1..Len(n) : n[i] \in NameChars

InstallCommands == {"npm install", "yarn install", "pnpm install", "bun install"}

\* C1: in a run started with --yes and a --name no prompt is ever shown.
\* The code shows the overwrite prompt when the directory exists and
\* --overwrite was not passed.  Stated for well-formed names, so that the
\* violation owes nothing to an ill-formed one.
C1_NoPromptUnderYes ==
    (args.yes /\ WellNamed(args.name)) => shown = <<>>

\* C2: the config handed to createProject has a well-formed projectName, and
\* an ill-formed --name ends the run with exit code 1 before any filesystem
\* step or clone.  The code discards the result of validateProjectName.
C2_ProjectNameValid ==
    /\ pc = "createProject" => WellNamed(config.projectName)
    /\ (TruthyName(args.name) /\ ~WellNamed(args.name)) =>
          /\ steps = <<>>
          /\ fs.dir # "created"
          /\ pc = "exited" => exitCode = 1

\* C3: once a prompt is cancelled the process has exited with code 0, no
\* later prompt was shown and no step ran.  The name prompt has no onCancel:
\* the run goes on with an undefined name.
C3_CancelExitsZero ==
    cancelled # "" =>
       /\ pc = "exited"
       /\ exitCode = 0
       /\ shown[Len(shown)] = cancelled

\* C4: in interactive mode a field fixed by a flag is not prompted for and
\* resolves to the flag's value.  The code tests only options.install and
\* options.git, so --no-install and --no-git do not suppress the question.
\* Stated for a --name that is absent or well-formed, and counting an empty
\* --template as not given.
C4_FlagsFixFields ==
    (~args.yes /\ (TruthyName(args.name) => WellNamed(args.name))) =>
       /\ "installDependencies" \in Range(shown) =>
             ~args.install /\ ~args.noInstall
       /\ "initializeGit" \in Range(shown) =>
             checks["git"] /\ ~args.git /\ ~args.noGit
       /\ "template" \in Range(shown) => ~Truthy(args.template)
       /\ pc = "createProject" =>
             /\ args.install => config.installDependencies
             /\ args.noInstall => ~config.installDependencies
             /\ args.git => config.initializeGit
             /\ args.noGit => ~config.initializeGit

\* C5: a --yes run with a valid name, --no-git and --no-install on an absent
\* directory, whose clone succeeds with a parseable package.json, ends with
\* exit code 0, no .git, the manifest rewritten, no git init, no install and
\* the npm fallback printed last.  The code removes package-lock.json
\* without `force`, so a template without a lockfile ends the run with 1.
C5_EndToEnd ==
    ( /\ pc = "exited"
      /\ args.yes /\ WellNamed(args.name)
      /\ args.noGit /\ args.noInstall
      /\ "rm:dir" \notin Range(steps) /\ shown = <<>>
      /\ "updatePackageJson" \in Range(steps)
      /\ fs.pkg = "valid" )
    =>
    ( /\ exitCode = 0
      /\ fs.dir = "created"
      /\ fs.git = "none"
      /\ fs.pkgName = args.name
      /\ fs.pkgVersion = "0.1.0"
      /\ ~fs.pkgDescription
      /\ "git init" \notin Range(steps)
      /\ Range(steps) \cap InstallCommands = {}
      /\ printed # <<>>
      /\ printed[Len(printed)] = "npm install && npm run dev" )

\* the existing directory was approved for deletion
Approved == args.overwrite \/ overwriteAnswer = "true"

\* C6: an existing directory is deleted only after approval (--overwrite or
\* a confirmed overwrite prompt); when the prompt is declined the process
\* has exited with code 0, the directory is as it was and no step ran.
C6_DeleteOnlyAfterApproval ==
    /\ [](/\ "rm:dir" \in Range(steps) => Approved
          /\ fs.dir = "existing" => (fs = ExistingDir /\ steps = <<>>)
          /\ overwriteAnswer = "false" =>
                /\ pc = "exited"
                /\ exitCode = 0
                /\ fs = ExistingDir
                /\ steps = <<>>)
    /\ [][(fs.dir = "existing" /\ fs' # fs) =>
             (Approved /\ steps' = <<"rm:dir">>)]_vars

\* C6 witness: the directory exists, --overwrite was not passed, the prompt
\* was declined and the process has exited.
C6_Witness ==
    /\ pc = "exited"
    /\ ~args.overwrite
    /\ overwriteAnswer = "false"
    /\ fs = ExistingDir

\* a validation rule of the claim is violated; the probe results count once
\* checkSystemDependencies has returned
Probed == pc \notin {"validateAndParseArgs", "checkSystemDependencies"}

RuleViolated(templateGiven, managerGiven) ==
    \/ args.yes /\ args.name = undefinedName
    \/ args.install /\ args.noInstall
    \/ args.git /\ args.noGit
    \/ templateGiven /\ args.template \notin {"default", "with-drizzle", "with-prisma"}
    \/ managerGiven /\ args.packageManager \notin {"npm", "yarn", "pnpm", "bun"}
    \/ /\ args.yes /\ Probed
       /\ args.packageManager \in {"npm", "yarn", "pnpm", "bun"}
       /\ ~checks[args.packageManager]

\* what the claim promises of such a run: nothing shown, nothing done, and
\* if it has ended, it ended with exit code 1
FailsCleanly ==
    /\ shown = <<>>
    /\ steps = <<>>
    /\ fs \in {AbsentDir, ExistingDir}
    /\ pc \in {"validateAndParseArgs", "checkSystemDependencies",
               "getBaseConfig", "getProjectConfig", "exited"}
    /\ pc = "exited" => exitCode = 1

\* C7 as stated: every run that violates a validation rule ends with exit
\* code 1 without a prompt, a directory change or a clone.
C7_Original ==
    RuleViolated(args.template # undefined, args.packageManager # undefined)
       => FailsCleanly

\* C7 as amended: the same for a non-empty --template not in the catalog and
\* a non-empty --package-manager outside the supported set (validateAndParseArgs
\* treats an empty value as not given).
C7_ValidationFailsCleanly ==
    RuleViolated(Truthy(args.template), Truthy(args.packageManager))
       => FailsCleanly

\* C7 witness: under --yes the requested package manager is unavailable and
\* the run has ended with exit code 1.
C7_Witness ==
    /\ pc = "exited"
    /\ exitCode = 1
    /\ args.yes
    /\ args.packageManager = "pnpm"
    /\ ~checks["pnpm"]
    /\ errorMessage = "Package manager not available"

\* C8: in non-interactive mode the config handed to createProject is built
\* from the flags and the defaults alone.
C8_AutoConfig ==
    (args.yes /\ pc = "createProject") =>
       /\ config.projectName = args.name
       /\ config.template.name =
             (IF args.template \in {"default", "with-drizzle", "with-prisma"}
                 THEN args.template ELSE "default")
       /\ config.template = TEMPLATES[1] \/ config.template.name # "default"
       /\ config.packageManager =
             (IF args.packageManager \in {"npm", "yarn", "pnpm", "bun"}
                 THEN args.packageManager ELSE "npm")
       /\ config.installDependencies = ~args.noInstall
       /\ config.initializeGit = ~args.noGit
       /\ config.overwrite = args.overwrite

\* C8 witness: a --yes run with --template, --package-manager, --no-install
\* and --overwrite reaches createProject.
C8_Witness ==
    /\ pc = "createProject"
    /\ args.yes
    /\ args.template = "with-prisma"
    /\ args.packageManager = "pnpm"
    /\ args.noInstall
    /\ args.overwrite

\* C9: validateProjectName returns true exactly for the non-empty strings of
\* lowercase letters, digits and hyphens, the empty message for the empty
\* string and the format message for every other string.
C9_ValidateProjectName ==
    pc = "returned" =>
       /\ vpnArg = <<>> => vpnResult = "Project name cannot be empty"
       /\ (vpnArg # <<>> /\ \A i \in 1..Len(vpnArg) : vpnArg[i] \in NameChars)
             => vpnResult = "true"
       /\ (\E i \in 1..Len(vpnArg) : vpnArg[i] \notin NameChars)
             => vpnResult =
                "Project name can only contain lowercase letters, numbers, and hyphens"

\* C9 witness: the validator has returned the format message for a string
\* that starts well and holds an uppercase letter.
C9_Witness ==
    /\ pc = "returned"
    /\ vpnArg = <<"a", "A">>
    /\ vpnResult # "true"

\* the order the claim gives (lockfile removal is not in it)
ClaimedRank(step) ==
    CASE step \in {"rm:dir", "mkdir"} -> 1
      [] step = "git clone" -> 2
      [] step = "rm:.git" -> 3
      [] step = "rm:package-lock.json" -> 3
      [] step = "updatePackageJson" -> 4
      [] step = "git init" -> 5
      [] step \in InstallCommands -> 6

\* the order of createProject
CodeRank(step) ==
    CASE step = "rm:dir" -> 0
      [] step = "mkdir" -> 1
      [] step = "git clone" -> 2
      [] step = "updatePackageJson" -> 3
      [] step = "rm:.git" -> 4
      [] step = "rm:package-lock.json" -> 5
      [] step = "git init" -> 6
      [] step \in InstallCommands -> 7

\* C10 as stated: directory preparation, clone, removal of the cloned .git,
\* manifest rewrite, git init, install, in that order.
C10_Original ==
    \A i, j \in 1..Len(steps) :
       i < j => ClaimedRank(steps[i]) <= ClaimedRank(steps[j])

\* C10 as amended: directory preparation, clone, manifest rewrite, removal
\* of the cloned .git, removal of package-lock.json, git init, install, each
\* at most once and in that order; a step is begun only when the run is at
\* it, and git init finds no .git directory.
C10_StepOrder ==
    /\ \A i, j \in 1..Len(steps) :
          i < j => CodeRank(steps[i]) < CodeRank(steps[j])
    /\ "git init" \in Range(steps) =>
          /\ Position("rm:.git") > Position("updatePackageJson")
          /\ Position("rm:.git") < Position("git init")
          /\ Position("updatePackageJson") > 0
    /\ fs.git = "fresh" => "rm:.git" \in Range(steps)
    /\ pc = "initializeGitRepository" => fs.git = "none"

\* C10 witness: a run that deleted the old directory and went through every
\* step, git init and install included.
C10_Witness ==
    /\ pc = "exited"
    /\ exitCode = 0
    /\ Len(steps) = 8
    /\ fs.git = "fresh"
    /\ fs.modules

\* the step each execution error of the model comes from
FailedStep ==
    CASE errorMessage = "Command failed: git clone" -> {"git clone"}
      [] errorMessage = "ENOENT: no such file or directory, open package.json"
            -> {"updatePackageJson"}
      [] errorMessage = "Unexpected token in JSON" -> {"updatePackageJson"}
      [] errorMessage = "ENOENT: no such file or directory, lstat .git"
            -> {"rm:.git"}
      [] errorMessage = "ENOENT: no such file or directory, lstat package-lock.json"
            -> {"rm:package-lock.json"}
      [] errorMessage = "Command failed: git init" -> {"git init"}
      [] errorMessage = "Command failed: install" -> InstallCommands
      [] OTHER -> {}

\* C11: when a step of createProject fails the run has ended with exit code
\* 1 right there: the failed step is the last one issued and had no effect,
\* no step was issued twice, nothing was printed, and the directory produced
\* so far is still in place.
C11_AbortOnFailure ==
    /\ \A i, j \in 1..Len(steps) : steps[i] = steps[j] => i = j
    /\ FailedStep # {} =>
          /\ pc = "exited"
          /\ exitCode = 1
          /\ printed = <<>>
          /\ steps # <<>>
          /\ steps[Len(steps)] \in FailedStep
          /\ fs.dir = "created"
          /\ steps[Len(steps)] = "git clone" => (fs.git = "none" /\ fs.pkg = "missing")
          /\ steps[Len(steps)] = "updatePackageJson" =>
                (fs.git = "cloned" /\ fs.pkgVersion # "0.1.0")
          /\ steps[Len(steps)] = "rm:package-lock.json" =>
                (fs.pkgVersion = "0.1.0" /\ fs.git = "none")
          /\ steps[Len(steps)] = "git init" => (fs.git = "none" /\ ~fs.modules)
          /\ steps[Len(steps)] \in InstallCommands => ~fs.modules
    /\ (pc = "exited" /\ exitCode = 1 /\ steps # <<>>) => FailedStep # {}
    /\ printed # <<>> => (exitCode = 0 /\ FailedStep = {})

\* C11 witness: git init failed after the manifest was rewritten; the run
\* has ended with exit code 1 and the directory is left half made.
C11_Witness ==
    /\ pc = "exited"
    /\ exitCode = 1
    /\ errorMessage = "Command failed: git init"
    /\ steps[Len(steps)] = "git init"
    /\ fs.dir = "created"
    /\ fs.pkgVersion = "0.1.0"

\* the child process of the probe of tool t
ChildOf(t) == probes.child[CHOOSE i \in 1..5 : ProbeCalls[i] = t]

\* C12, at every moment: no promise resolves before all five probes were
\* dispatched; checkSystemDependencies returns only when all five have
\* settled, with each tool's entry true exactly when that tool's own child
\* succeeded; a failed child resolves its promise to false and raises no
\* error.
C12_Always ==
    /\ (\E i \in 1..5 : probes.promise[i] \in {"true", "false"}) =>
          \A i \in 1..5 : probes.child[i] # "none"
    /\ \A i \in 1..5 :
          /\ probes.promise[i] = "true" => probes.child[i] = "ok"
          /\ probes.promise[i] = "false" => probes.child[i] = "error"
    /\ pc = "getBaseConfig" =>
          /\ Len(probes.order) = 5
          /\ \A t \in {"npm", "yarn", "pnpm", "bun", "git"} :
                checks[t] = (ChildOf(t) = "ok")
    /\ exitCode = -1
    /\ errorMessage = ""

\* C12: the above, and checkSystemDependencies does return, whatever the
\* probes' outcomes and the order they end in.
C12_ProbesJoin == []C12_Always /\ <>(pc = "getBaseConfig")

\* C12 witness: the probes resolved in the reverse of the order they were
\* dispatched in, bun and git failed, and checkSystemDependencies returned.
C12_Witness ==
    /\ pc = "getBaseConfig"
    /\ probes.order = <<"git", "bun", "pnpm", "yarn", "npm">>
    /\ checks = [t \in Tools |-> t \in {"npm", "yarn", "pnpm"}]

RunDevCommands == {"npm run dev", "yarn run dev", "pnpm run dev", "bun run dev"}

\* C13: a resolved config that asks for the install names one of the four
\* package managers; so the install step is entered, and the install command
\* issued, exactly when installDependencies is true, and the `run dev` line
\* printed names a package manager.
C13_InstallHasManager ==
    /\ config.installDependencies =>
          config.packageManager \in {"npm", "yarn", "pnpm", "bun"}
    /\ pc = "installDependencies" => config.installDependencies
    /\ pc = "displaySuccessMessage" =>
          (config.installDependencies <=>
              Range(steps) \cap InstallCommands # {})
    /\ printed # <<>> =>
          /\ config.installDependencies <=>
                Range(steps) \cap InstallCommands # {}
          /\ config.installDependencies =>
                printed[Len(printed)] \in RunDevCommands
          /\ ~config.installDependencies =>
                printed[Len(printed)] = "npm install && npm run dev"

\* C13 witness: an interactive run with --install and --template where yarn
\* was chosen at the prompt has installed with yarn and printed its line.
C13_Witness ==
    /\ pc = "exited"
    /\ ~args.yes
    /\ args.install
    /\ args.template = "with-prisma"
    /\ "yarn install" \in Range(steps)
    /\ printed # <<>>
    /\ printed[Len(printed)] = "yarn run dev"

====
